---- MODULE Spec2Model ----
(***************************************************************************)
(* HTTP client resilience layer of the dashboard front end:                *)
(*   - the axios client built by createApiClient (request interceptor,     *)
(*     response interceptor with retry / backoff / 401 handling),          *)
(*   - AuthService (handleShopifyCallback, logout, refreshToken and the    *)
(*     localStorage accessors).                                            *)
(* The event loop is single threaded: every action below is one           *)
(* uninterrupted run of JavaScript between two suspension points (an       *)
(* awaited network response, an awaited timer, an awaited promise).        *)
(***************************************************************************)
EXTENDS Integers, FiniteSets, Sequences, TLC

\* Number of logical calls that may be in progress concurrently.
NCalls == 2

Calls == 1..NCalls

\* ------------------------------------------------------------------ values

\* localStorage.getItem of a missing key (null).
None == "none"

\* Access tokens the remote service may hand out.
Tokens == {"t1", "t2"}

\* Stored refresh token / serialized session, when present.
RefreshTokens == {"r1"}
Sessions == {"s1"}

TOKEN_KEY == "access_token"
REFRESH_TOKEN_KEY == "refresh_token"
USER_KEY == "user_session"

MAX_RETRIES_4 == 3 + 1
MAX_RETRIES == 3
RETRY_DELAY == 1000

AppRoute == "/"
LoginRoute == "/auth/login"

\* Outcome of one attempt as the response interceptor sees it.
\*   NoConfig   : the error carries no request descriptor (error.config absent)
\*   NoResponse : error.response is undefined (timeout, refused, DNS)
\*   otherwise  : the HTTP status of the response
NoConfig == -1
NoResponse == 0
NoOutcome == -2

OkStatus == 200
ErrStatuses == {400, 401, 403, 404, 422, 429, 500, 502, 503}
ErrOutcomes == ErrStatuses \cup {NoResponse, NoConfig}

\* Callers of the client.
\*   "send"    : a feature-module call (apiClient.get/post/put/delete)
\*   "logout"  : AuthService.logout
\*   "refresh" : AuthService.refreshToken
\*   "login"   : AuthService.handleShopifyCallback
Kinds == {"send", "logout", "refresh", "login"}

VARIABLES
    localStorage,   \* [access_token, refresh_token, user_session]
    location,       \* window.location.href
    kind,           \* kind[c]       : who issued call c
    st,             \* st[c]         : idle | flight | wait | resolved | done
    retryCount,     \* retryCount[c] : config.retryCount (undefined read as 0)
    attempts,       \* attempts[c]   : requests put on the wire for c
    fails,          \* fails[c]      : retryable failures received for c
    hdr,            \* hdr[c]        : config.headers.Authorization
    status,         \* status[c]     : outcome the promise of c settled with
    body,           \* body[c]       : access_token of the response data
    delay,          \* delay[c]      : delay of the pending timer
    waited,         \* waited[c]     : sum of the timers that fired
    wire,           \* wire[c]       : requests of c awaiting their outcome
    ret,            \* ret[c]        : what the caller's operation returned
    error,          \* the value handed to getErrorMessage
    message,        \* what getErrorMessage returned for the previous value
    trace           \* outcomes of the failed attempts of one observed call

vars == <<localStorage, location, kind, st, retryCount, attempts, fails, hdr,
          status, body, delay, waited, wire, ret, error, message, trace>>

\* The variables the client and AuthService never touch.
aux == <<error, message, trace>>

\* ------------------------------------------------------------ localStorage

getItem(ls, key) == ls[key]

setItem(ls, key, v) == [ls EXCEPT ![key] = v]

removeItem(ls, key) == [ls EXCEPT ![key] = None]

\* AuthService.getToken / getRefreshToken / isAuthenticated
getToken == getItem(localStorage, TOKEN_KEY)

getRefreshToken == getItem(localStorage, REFRESH_TOKEN_KEY)

isAuthenticated_AnyCredential == getToken # None \/ getRefreshToken # None

isAuthenticated == getToken # None

\* The Credential the token store holds: access token and refresh token, absent
\* when there is no access token.
TokenStoreGet ==
    IF getToken = None THEN None
    ELSE [accessToken |-> getToken, refreshToken |-> getRefreshToken]

\* AuthService.setToken
setToken_AsRefresh(ls, token) == setItem(ls, REFRESH_TOKEN_KEY, token)

setToken(ls, token) == setItem(ls, TOKEN_KEY, token)

\* AuthService.clearAuth
clearAuth(ls) ==
    removeItem(removeItem(removeItem(ls, TOKEN_KEY), REFRESH_TOKEN_KEY), USER_KEY)

\* ------------------------------------------------------------ the gateway

\* Request interceptor: the Authorization header of the config after it ran.
\* A truthy token overwrites the header; otherwise the config is returned as
\* it came in, with whatever header it already carried.
AttachAuth_KeepFirst(ls, old) ==
    IF old # None THEN old ELSE getItem(ls, TOKEN_KEY)

AttachAuth(ls, old) ==
    IF getItem(ls, TOKEN_KEY) # None THEN getItem(ls, TOKEN_KEY) ELSE old

\* error.response?.status is truthy
HasStatus(o) == o > 0

\* "Don't retry on 4xx errors (except 429)"
NoRetry_Not401(o) == HasStatus(o) /\ o < 500 /\ o # 429 /\ o # 401

NoRetry_Incl429(o) == HasStatus(o) /\ o < 500

NoRetry(o) == HasStatus(o) /\ o < 500 /\ o # 429

IsUnauthorized_Never(o) == FALSE

IsUnauthorized_Or403(o) == o \in {401, 403}

IsUnauthorized(o) == o = 401

RECURSIVE Pow2(_)
Pow2(n) == IF n = 0 THEN 1 ELSE 2 * Pow2(n - 1)

\* RETRY_DELAY * Math.pow(2, config.retryCount - 1), retryCount already bumped
BackoffDelay_Const(rc) == RETRY_DELAY

BackoffDelay_Linear(rc) == RETRY_DELAY * rc

BackoffDelay(rc) == RETRY_DELAY * Pow2(rc - 1)

\* ------------------------------------------------------- getErrorMessage

\* The values getErrorMessage is given.
\*   isAxiosError : axios.isAxiosError(error)
\*   isError      : error instanceof Error
\*   hasData      : error.response?.data is defined
\*   detail       : error.response.data.detail  (None: undefined)
\*   dataMessage  : error.response.data.message (None: undefined)
\*   message      : error.message (an Error always has one, possibly empty)
Details == {None, "", "Store not found"}
DataMessages == {None, "", "Bad request"}
TransportMessages == {"", "Network Error"}

Errors ==
    { [isAxiosError |-> TRUE, isError |-> TRUE, hasData |-> TRUE,
       detail |-> d, dataMessage |-> m, message |-> t] :
         d \in Details, m \in DataMessages, t \in TransportMessages }
    \cup
    { [isAxiosError |-> TRUE, isError |-> TRUE, hasData |-> FALSE,
       detail |-> None, dataMessage |-> None, message |-> t] :
         t \in TransportMessages }
    \cup
    { [isAxiosError |-> FALSE, isError |-> TRUE, hasData |-> FALSE,
       detail |-> None, dataMessage |-> None, message |-> t] :
         t \in TransportMessages }
    \cup
    { [isAxiosError |-> FALSE, isError |-> FALSE, hasData |-> FALSE,
       detail |-> None, dataMessage |-> None, message |-> None] }

\* JavaScript truthiness of a string or undefined.
Truthy(v) == v # None /\ v # ""

\* a || b
JsOr(a, b) == IF Truthy(a) THEN a ELSE b

\* response?.detail and response?.message, response = error.response?.data
ResponseDetail(e) == IF e.hasData THEN e.detail ELSE None

ResponseMessage(e) == IF e.hasData THEN e.dataMessage ELSE None

GenericMessage == "An error occurred"
UnexpectedMessage == "An unexpected error occurred"

getErrorMessage_MessageFirst(e) ==
    IF e.isAxiosError
    THEN JsOr(JsOr(JsOr(ResponseMessage(e), ResponseDetail(e)), e.message),
              GenericMessage)
    ELSE IF e.isError THEN e.message
    ELSE UnexpectedMessage

getErrorMessage(e) ==
    IF e.isAxiosError
    THEN JsOr(JsOr(JsOr(ResponseDetail(e), ResponseMessage(e)), e.message),
              GenericMessage)
    ELSE IF e.isError THEN e.message
    ELSE UnexpectedMessage

\* ------------------------------------------------------------------ states

TypeOK ==
    /\ localStorage \in [{TOKEN_KEY, REFRESH_TOKEN_KEY, USER_KEY} ->
                            Tokens \cup RefreshTokens \cup Sessions \cup {None}]
    /\ location \in {AppRoute, LoginRoute}
    /\ kind \in [Calls -> Kinds \cup {None}]
    /\ st \in [Calls -> {"idle", "flight", "wait", "resolved", "done"}]
    /\ retryCount \in [Calls -> Nat]
    /\ attempts \in [Calls -> Nat]
    /\ fails \in [Calls -> Nat]
    /\ hdr \in [Calls -> Tokens \cup {None}]
    /\ status \in [Calls -> ErrOutcomes \cup {OkStatus, NoOutcome}]
    /\ body \in [Calls -> Tokens \cup {None}]
    /\ delay \in [Calls -> Nat]
    /\ waited \in [Calls -> Nat]
    /\ wire \in [Calls -> Nat]
    /\ ret \in [Calls -> {None, "true", "false", "void", "data", "throw"}]
    /\ error \in Errors
    /\ message \in {None, "", GenericMessage, UnexpectedMessage}
                    \cup Details \cup DataMessages \cup TransportMessages
    /\ trace \in Seq(ErrOutcomes)

\* The client and AuthService after construction, no call issued yet.
InitClient ==
    /\ localStorage \in
         { [k \in {TOKEN_KEY, REFRESH_TOKEN_KEY, USER_KEY} |->
              IF k = TOKEN_KEY THEN a
              ELSE IF k = REFRESH_TOKEN_KEY THEN r ELSE s] :
           a \in Tokens \cup {None}, r \in RefreshTokens \cup {None},
           s \in Sessions \cup {None} }
    /\ location = AppRoute
    /\ kind = [c \in Calls |-> None]
    /\ st = [c \in Calls |-> "idle"]
    /\ retryCount = [c \in Calls |-> 0]
    /\ attempts = [c \in Calls |-> 0]
    /\ fails = [c \in Calls |-> 0]
    /\ hdr = [c \in Calls |-> None]
    /\ status = [c \in Calls |-> NoOutcome]
    /\ body = [c \in Calls |-> None]
    /\ delay = [c \in Calls |-> 0]
    /\ waited = [c \in Calls |-> 0]
    /\ wire = [c \in Calls |-> 0]
    /\ ret = [c \in Calls |-> None]

\* A value no call has produced.
NoError ==
    [isAxiosError |-> FALSE, isError |-> FALSE, hasData |-> FALSE,
     detail |-> None, dataMessage |-> None, message |-> None]

Init ==
    /\ InitClient
    /\ error = NoError
    /\ message = None
    /\ trace = << >>

\* client(config): run the request interceptor and put the request on the wire.
Dispatch(c) ==
    /\ hdr' = [hdr EXCEPT ![c] = AttachAuth(localStorage, hdr[c])]
    /\ attempts' = [attempts EXCEPT ![c] = @ + 1]
    /\ wire' = [wire EXCEPT ![c] = @ + 1]
    /\ st' = [st EXCEPT ![c] = "flight"]

\* A caller issues a new logical call through apiClient.
Issue(c, k) ==
    /\ st[c] = "idle"
    /\ kind' = [kind EXCEPT ![c] = k]
    /\ Dispatch(c)
    /\ UNCHANGED <<localStorage, location, retryCount, fails, status, body,
                   delay, waited, ret>>

\* A feature module calls apiClient.get/post/put/delete.
Send(c) == Issue(c, "send")

\* AuthService.logout up to its await.
LogoutStart_ClearFirst(c) ==
    /\ st[c] = "idle"
    /\ kind' = [kind EXCEPT ![c] = "logout"]
    /\ Dispatch(c)
    /\ localStorage' = clearAuth(localStorage)
    /\ UNCHANGED <<location, retryCount, fails, status, body, delay, waited,
                   ret>>

LogoutStart(c) == Issue(c, "logout")

\* AuthService.handleShopifyCallback up to its await.
LoginStart(c) == Issue(c, "login")

\* AuthService.refreshToken up to its await, a refresh token being stored.
RefreshStart(c) ==
    /\ getRefreshToken # None
    /\ Issue(c, "refresh")

\* AuthService.refreshToken when no refresh token is stored: return false.
RefreshNoToken(c) ==
    /\ st[c] = "idle"
    /\ getRefreshToken = None
    /\ kind' = [kind EXCEPT ![c] = "refresh"]
    /\ st' = [st EXCEPT ![c] = "done"]
    /\ ret' = [ret EXCEPT ![c] = "false"]
    /\ UNCHANGED <<localStorage, location, retryCount, attempts, fails, hdr,
                   status, body, delay, waited, wire>>

\* The promise of call c settles with outcome o (resolve with the response,
\* or Promise.reject(error)).
Settle_Generic(c, o) ==
    /\ st' = [st EXCEPT ![c] = "resolved"]
    /\ status' = [status EXCEPT ![c] = NoResponse]

Settle(c, o) ==
    /\ st' = [st EXCEPT ![c] = "resolved"]
    /\ status' = [status EXCEPT ![c] = o]

\* Response interceptor, success branch: (response) => response.
RecvSuccess(c, tok) ==
    /\ st[c] = "flight"
    /\ wire' = [wire EXCEPT ![c] = @ - 1]
    /\ Settle(c, OkStatus)
    /\ body' = [body EXCEPT ![c] =
                  IF kind[c] \in {"refresh", "login"} THEN tok ELSE None]
    /\ UNCHANGED <<localStorage, location, kind, retryCount, attempts, fails,
                   hdr, delay, waited, ret>>

\* Response interceptor, error branch, for an attempt that ended with o.
RecvError_SharedCount(c, o) ==
    /\ st[c] = "flight"
    /\ wire' = [wire EXCEPT ![c] = @ - 1]
    /\ IF o = NoConfig
       THEN /\ Settle(c, o)
            /\ UNCHANGED <<localStorage, location, retryCount, fails, delay>>
       ELSE IF NoRetry(o)
       THEN /\ IF IsUnauthorized(o)
               THEN /\ localStorage' = removeItem(localStorage, TOKEN_KEY)
                    /\ location' = LoginRoute
               ELSE UNCHANGED <<localStorage, location>>
            /\ Settle(c, o)
            /\ UNCHANGED <<retryCount, fails, delay>>
       ELSE /\ fails' = [fails EXCEPT ![c] = @ + 1]
            /\ UNCHANGED <<localStorage, location>>
            /\ IF retryCount[c] < MAX_RETRIES
               THEN /\ retryCount' = [d \in Calls |-> retryCount[c] + 1]
                    /\ delay' = [delay EXCEPT ![c] =
                                   BackoffDelay(retryCount[c] + 1)]
                    /\ st' = [st EXCEPT ![c] = "wait"]
                    /\ UNCHANGED status
               ELSE /\ Settle(c, o)
                    /\ UNCHANGED <<retryCount, delay>>
    /\ UNCHANGED <<kind, attempts, hdr, body, waited, ret>>

RecvError_RetryNoConfig(c, o) ==
    /\ st[c] = "flight"
    /\ wire' = [wire EXCEPT ![c] = @ - 1]
    /\ IF FALSE
       THEN /\ Settle(c, o)
            /\ UNCHANGED <<localStorage, location, retryCount, fails, delay>>
       ELSE IF NoRetry(o)
       THEN /\ IF IsUnauthorized(o)
               THEN /\ localStorage' = removeItem(localStorage, TOKEN_KEY)
                    /\ location' = LoginRoute
               ELSE UNCHANGED <<localStorage, location>>
            /\ Settle(c, o)
            /\ UNCHANGED <<retryCount, fails, delay>>
       ELSE /\ fails' = [fails EXCEPT ![c] = @ + 1]
            /\ UNCHANGED <<localStorage, location>>
            /\ IF retryCount[c] < MAX_RETRIES
               THEN /\ retryCount' = [retryCount EXCEPT ![c] = @ + 1]
                    /\ delay' = [delay EXCEPT ![c] =
                                   BackoffDelay(retryCount[c] + 1)]
                    /\ st' = [st EXCEPT ![c] = "wait"]
                    /\ UNCHANGED status
               ELSE /\ Settle(c, o)
                    /\ UNCHANGED <<retryCount, delay>>
    /\ UNCHANGED <<kind, attempts, hdr, body, waited, ret>>

RecvError(c, o) ==
    /\ st[c] = "flight"
    /\ wire' = [wire EXCEPT ![c] = @ - 1]
    /\ IF o = NoConfig
       THEN /\ Settle(c, o)
            /\ UNCHANGED <<localStorage, location, retryCount, fails, delay>>
       ELSE IF NoRetry(o)
       THEN /\ IF IsUnauthorized(o)
               THEN /\ localStorage' = removeItem(localStorage, TOKEN_KEY)
                    /\ location' = LoginRoute
               ELSE UNCHANGED <<localStorage, location>>
            /\ Settle(c, o)
            /\ UNCHANGED <<retryCount, fails, delay>>
       ELSE /\ fails' = [fails EXCEPT ![c] = @ + 1]
            /\ UNCHANGED <<localStorage, location>>
            /\ IF retryCount[c] < MAX_RETRIES
               THEN /\ retryCount' = [retryCount EXCEPT ![c] = @ + 1]
                    /\ delay' = [delay EXCEPT ![c] =
                                   BackoffDelay(retryCount[c] + 1)]
                    /\ st' = [st EXCEPT ![c] = "wait"]
                    /\ UNCHANGED status
               ELSE /\ Settle(c, o)
                    /\ UNCHANGED <<retryCount, delay>>
    /\ UNCHANGED <<kind, attempts, hdr, body, waited, ret>>

\* The backoff timer of c fires: return client(config).
TimerFire_Early(c) ==
    /\ st[c] \in {"wait", "flight"} /\ retryCount[c] >= 1 /\ attempts[c] < 4
    /\ Dispatch(c)
    /\ waited' = [waited EXCEPT ![c] = @ + delay[c]]
    /\ delay' = [delay EXCEPT ![c] = 0]
    /\ UNCHANGED <<localStorage, location, kind, retryCount, fails, status,
                   body, ret>>

TimerFire_UnlessCleared(c) ==
    /\ st[c] = "wait" /\ getToken # None
    /\ Dispatch(c)
    /\ waited' = [waited EXCEPT ![c] = @ + delay[c]]
    /\ delay' = [delay EXCEPT ![c] = 0]
    /\ UNCHANGED <<localStorage, location, kind, retryCount, fails, status,
                   body, ret>>

TimerFire(c) ==
    /\ st[c] = "wait"
    /\ Dispatch(c)
    /\ waited' = [waited EXCEPT ![c] = @ + delay[c]]
    /\ delay' = [delay EXCEPT ![c] = 0]
    /\ UNCHANGED <<localStorage, location, kind, retryCount, fails, status,
                   body, ret>>

\* AuthService.logout after its await: catch logs, finally clearAuth().
LogoutFinish_OnlyOnSuccess(c) ==
    /\ st[c] = "resolved" /\ kind[c] = "logout"
    /\ localStorage' = IF status[c] = OkStatus THEN clearAuth(localStorage)
                       ELSE localStorage
    /\ st' = [st EXCEPT ![c] = "done"]
    /\ ret' = [ret EXCEPT ![c] = "void"]
    /\ UNCHANGED <<location, kind, retryCount, attempts, fails, hdr, status,
                   body, delay, waited, wire>>

LogoutFinish_Rethrow(c) ==
    /\ st[c] = "resolved" /\ kind[c] = "logout"
    /\ localStorage' = clearAuth(localStorage)
    /\ st' = [st EXCEPT ![c] = "done"]
    /\ ret' = [ret EXCEPT ![c] = IF status[c] = OkStatus THEN "void" ELSE "throw"]
    /\ UNCHANGED <<location, kind, retryCount, attempts, fails, hdr, status,
                   body, delay, waited, wire>>

LogoutFinish(c) ==
    /\ st[c] = "resolved" /\ kind[c] = "logout"
    /\ localStorage' = clearAuth(localStorage)
    /\ st' = [st EXCEPT ![c] = "done"]
    /\ ret' = [ret EXCEPT ![c] = "void"]
    /\ UNCHANGED <<location, kind, retryCount, attempts, fails, hdr, status,
                   body, delay, waited, wire>>

\* AuthService.refreshToken after its await: setToken and true, or the catch
\* block: clearAuth and false.
RefreshFinish_NoClear(c) ==
    /\ st[c] = "resolved" /\ kind[c] = "refresh"
    /\ IF status[c] = OkStatus
       THEN /\ localStorage' = setToken(localStorage, body[c])
            /\ ret' = [ret EXCEPT ![c] = "true"]
       ELSE /\ localStorage' = localStorage
            /\ ret' = [ret EXCEPT ![c] = "false"]
    /\ st' = [st EXCEPT ![c] = "done"]
    /\ UNCHANGED <<location, kind, retryCount, attempts, fails, hdr, status,
                   body, delay, waited, wire>>

RefreshFinish_Navigate(c) ==
    /\ st[c] = "resolved" /\ kind[c] = "refresh"
    /\ IF status[c] = OkStatus
       THEN /\ localStorage' = setToken(localStorage, body[c])
            /\ ret' = [ret EXCEPT ![c] = "true"]
            /\ UNCHANGED location
       ELSE /\ localStorage' = clearAuth(localStorage)
            /\ ret' = [ret EXCEPT ![c] = "false"]
            /\ location' = LoginRoute
    /\ st' = [st EXCEPT ![c] = "done"]
    /\ UNCHANGED <<kind, retryCount, attempts, fails, hdr, status,
                   body, delay, waited, wire>>

RefreshFinish(c) ==
    /\ st[c] = "resolved" /\ kind[c] = "refresh"
    /\ IF status[c] = OkStatus
       THEN /\ localStorage' = setToken(localStorage, body[c])
            /\ ret' = [ret EXCEPT ![c] = "true"]
       ELSE /\ localStorage' = clearAuth(localStorage)
            /\ ret' = [ret EXCEPT ![c] = "false"]
    /\ st' = [st EXCEPT ![c] = "done"]
    /\ UNCHANGED <<location, kind, retryCount, attempts, fails, hdr, status,
                   body, delay, waited, wire>>

\* AuthService.handleShopifyCallback after its await: setToken and return the
\* response data, or rethrow as Error("Failed to complete Shopify auth: ...").
LoginFinish_ClearOnFail(c) ==
    /\ st[c] = "resolved" /\ kind[c] = "login"
    /\ IF status[c] = OkStatus
       THEN /\ localStorage' = setToken(localStorage, body[c])
            /\ ret' = [ret EXCEPT ![c] = "data"]
       ELSE /\ localStorage' = clearAuth(localStorage)
            /\ ret' = [ret EXCEPT ![c] = "throw"]
    /\ st' = [st EXCEPT ![c] = "done"]
    /\ UNCHANGED <<location, kind, retryCount, attempts, fails, hdr, status,
                   body, delay, waited, wire>>

LoginFinish(c) ==
    /\ st[c] = "resolved" /\ kind[c] = "login"
    /\ IF status[c] = OkStatus
       THEN /\ localStorage' = setToken(localStorage, body[c])
            /\ ret' = [ret EXCEPT ![c] = "data"]
       ELSE /\ UNCHANGED localStorage
            /\ ret' = [ret EXCEPT ![c] = "throw"]
    /\ st' = [st EXCEPT ![c] = "done"]
    /\ UNCHANGED <<location, kind, retryCount, attempts, fails, hdr, status,
                   body, delay, waited, wire>>

\* What handleShopifyCallback returns on success: response.data, an
\* AuthResponse (access_token, token_type, expires_in), read as a Credential.
LoginResult(c) == [accessToken |-> body[c], refreshToken |-> None]

Next ==
    \E c \in Calls :
        \/ Send(c) /\ UNCHANGED aux
        \/ LogoutStart(c) /\ UNCHANGED aux
        \/ LoginStart(c) /\ UNCHANGED aux
        \/ RefreshStart(c) /\ UNCHANGED aux
        \/ RefreshNoToken(c) /\ UNCHANGED aux
        \/ \E tok \in Tokens : RecvSuccess(c, tok) /\ UNCHANGED aux
        \/ \E o \in ErrOutcomes : RecvError(c, o) /\ UNCHANGED aux
        \/ TimerFire(c) /\ UNCHANGED aux
        \/ LogoutFinish(c) /\ UNCHANGED aux
        \/ RefreshFinish(c) /\ UNCHANGED aux
        \/ LoginFinish(c) /\ UNCHANGED aux

Spec == Init /\ [][Next]_vars

\* An attempt of c yields its outcome.
Recv(c) ==
    \/ \E tok \in Tokens : RecvSuccess(c, tok) /\ UNCHANGED aux
    \/ \E o \in ErrOutcomes : RecvError(c, o) /\ UNCHANGED aux

\* The same program when every request on the wire gets an outcome (the
\* promise of the underlying request settles: a response, or an error without
\* one) and every timer set by setTimeout fires.
FairSpec ==
    /\ Spec
    /\ \A c \in Calls : WF_vars(Recv(c))
    /\ \A c \in Calls : WF_vars(TimerFire(c) /\ UNCHANGED aux)

\* The caller of c resumes after its await.
Resume(c) ==
    \/ LogoutFinish(c) /\ UNCHANGED aux
    \/ RefreshFinish(c) /\ UNCHANGED aux
    \/ LoginFinish(c) /\ UNCHANGED aux

\* FairSpec, and the continuation of an async function runs once the promise
\* it awaits has settled.
FairCallers ==
    /\ FairSpec
    /\ \A c \in Calls : WF_vars(Resume(c))

\* The call whose failed attempts are recorded in trace.
Observed == 1

\* One call on its own, the outcome of each failed attempt appended to trace.
NextOneCall ==
    \E c \in {Observed} :
        \/ Send(c) /\ UNCHANGED aux
        \/ LogoutStart(c) /\ UNCHANGED aux
        \/ LoginStart(c) /\ UNCHANGED aux
        \/ RefreshStart(c) /\ UNCHANGED aux
        \/ RefreshNoToken(c) /\ UNCHANGED aux
        \/ \E tok \in Tokens : RecvSuccess(c, tok) /\ UNCHANGED aux
        \/ \E o \in ErrOutcomes :
              /\ RecvError(c, o)
              /\ trace' = Append(trace, o)
              /\ UNCHANGED <<error, message>>
        \/ TimerFire(c) /\ UNCHANGED aux
        \/ LogoutFinish(c) /\ UNCHANGED aux
        \/ RefreshFinish(c) /\ UNCHANGED aux
        \/ LoginFinish(c) /\ UNCHANGED aux

SpecOneCall == Init /\ [][NextOneCall]_vars

\* Some code catches a value e.
Catch(e) ==
    /\ error' = e
    /\ message' = None
    /\ UNCHANGED <<localStorage, location, kind, st, retryCount, attempts,
                   fails, hdr, status, body, delay, waited, wire, ret, trace>>

\* It turns the value into text: message = getErrorMessage(error).
Render ==
    /\ message = None
    /\ message' = getErrorMessage(error)
    /\ UNCHANGED <<localStorage, location, kind, st, retryCount, attempts,
                   fails, hdr, status, body, delay, waited, wire, ret, error,
                   trace>>

InitMessage ==
    /\ InitClient
    /\ error \in Errors
    /\ message = None
    /\ trace = << >>

NextMessage ==
    \/ \E e \in Errors : Catch(e)
    \/ Render

SpecMessage == InitMessage /\ [][NextMessage]_vars

\* ------------------------------------------------------------------ claims

Settled(c) == st[c] \in {"resolved", "done"} /\ status[c] # NoOutcome

Min(a, b) == IF a <= b THEN a ELSE b

AllAbsent(ls) ==
    /\ getItem(ls, TOKEN_KEY) = None
    /\ getItem(ls, REFRESH_TOKEN_KEY) = None
    /\ getItem(ls, USER_KEY) = None

\* C1: a call that met N consecutive retryable failures (429, 5xx, no
\* response) has put exactly min(N+1, 4) requests on the wire once it is
\* settled; while it is in progress every retryable failure has been followed
\* by exactly one retry (or its pending timer), and a 5th attempt never exists.
C1_AttemptCount ==
    \A c \in Calls :
        /\ attempts[c] <= 4
        /\ st[c] = "flight" => attempts[c] = fails[c] + 1 /\ fails[c] <= 3
        /\ st[c] = "wait" => attempts[c] = fails[c] /\ fails[c] <= 3
        /\ Settled(c) => attempts[c] = Min(fails[c] + 1, 4)

C1_Witness ==
    \E c \in Calls :
        /\ st[c] = "resolved"
        /\ status[c] \in {500, 502, 503, 429}
        /\ fails[c] = 4
        /\ attempts[c] = 4

\* C2: when the first attempt of a call is answered with 401, the call is
\* settled with that error at once, one request was sent and none is sent
\* later, and right after the handler getToken() is absent.
C2_First401 ==
    /\ [][\A c \in Calls :
            (RecvError(c, 401) /\ attempts[c] = 1) =>
                /\ st'[c] = "resolved"
                /\ status'[c] = 401
                /\ attempts'[c] = 1
                /\ getToken' = None]_vars
    /\ [](\A c \in Calls :
            (Settled(c) /\ status[c] = 401 /\ fails[c] = 0) => attempts[c] = 1)

C2_Witness ==
    \E c \in Calls :
        /\ st[c] = "resolved"
        /\ status[c] = 401
        /\ attempts[c] = 1
        /\ hdr[c] # None
        /\ getToken = None

\* A step that clears the token store: the gateway's 401 handling, the end
\* of logout(), the catch block of refresh().
ClearStep(c) ==
    \/ RecvError(c, 401)
    \/ st[c] = "resolved" /\ kind[c] = "logout" /\ st'[c] = "done"
    \/ st[c] = "resolved" /\ kind[c] = "refresh" /\ status[c] # OkStatus
         /\ st'[c] = "done"

\* C3: right after any clear of the token store (logout, failed refresh,
\* gateway 401) access token, refresh token and session are all absent.
C3_ClearIsTotal ==
    [][\A c \in Calls : ClearStep(c) => AllAbsent(localStorage')]_vars

\* C4: an attempt (first or retry) dispatched while the store holds no access
\* token carries no Authorization header.
C4_NoTokenNoHeader ==
    [][\A c \in Calls :
          (st[c] \in {"idle", "wait"} /\ st'[c] = "flight" /\ getToken = None)
              => hdr'[c] = None]_vars

\* C5: a response with status 400, 403, 404 or 422 settles the call with that
\* error without any retry (one attempt when it answers the first attempt),
\* leaves the three store entries as they were and requests no navigation.
C5_ClientError ==
    [][\A c \in Calls : \A o \in {400, 403, 404, 422} :
          RecvError(c, o) =>
              /\ st'[c] = "resolved"
              /\ status'[c] = o
              /\ attempts'[c] = attempts[c]
              /\ (fails[c] = 0 => attempts'[c] = 1)
              /\ localStorage' = localStorage
              /\ location' = location]_vars

C5_Witness ==
    \E c \in Calls :
        /\ st[c] = "resolved"
        /\ status[c] \in {400, 403, 404, 422}
        /\ attempts[c] = 1
        /\ getToken # None
        /\ location = AppRoute

\* C6: a 401 on any attempt, retries included, settles the call with the 401
\* error, removes the access token, and no further attempt is ever made.
C6_401ShortCircuits ==
    /\ [][\A c \in Calls :
            RecvError(c, 401) =>
                /\ st'[c] = "resolved"
                /\ status'[c] = 401
                /\ getToken' = None]_vars
    /\ [][\A c \in Calls :
            Settled(c) => attempts'[c] = attempts[c] /\ Settled(c)']_vars

C6_Witness ==
    \E c \in Calls :
        /\ st[c] = "resolved"
        /\ status[c] = 401
        /\ retryCount[c] \in {1, 2}
        /\ attempts[c] = retryCount[c] + 1
        /\ hdr[c] # None
        /\ getToken = None

\* C7: when logout() completes the three store entries are absent, whatever
\* the revocation call settled with.
C7_LogoutClears ==
    [][\A c \in Calls :
          (st[c] = "resolved" /\ kind[c] = "logout" /\ st'[c] = "done")
              => AllAbsent(localStorage')]_vars

C7_Witness ==
    \E c \in Calls :
        /\ st[c] = "done"
        /\ kind[c] = "logout"
        /\ status[c] \in ErrOutcomes
        /\ fails[c] = 4
        /\ hdr[c] # None
        /\ AllAbsent(localStorage)

\* C8: refresh() without a stored refresh token returns false and leaves the
\* three store entries absent.
C8_RefreshNoTokenClears ==
    [][\A c \in Calls :
          RefreshNoToken(c) =>
              ret'[c] = "false" /\ AllAbsent(localStorage')]_vars

\* C9: refresh() whose exchange settled with any failure returns false and
\* leaves the three store entries absent.
C9_RefreshFailureClears ==
    [][\A c \in Calls :
          (st[c] = "resolved" /\ kind[c] = "refresh" /\ status[c] # OkStatus
             /\ st'[c] = "done")
              => ret'[c] = "false" /\ AllAbsent(localStorage')]_vars

C9_Witness ==
    \E c \in Calls :
        /\ st[c] = "done"
        /\ kind[c] = "refresh"
        /\ attempts[c] >= 1
        /\ status[c] \in ErrOutcomes
        /\ ret[c] = "false"
        /\ AllAbsent(localStorage)

\* C10 as stated: one refresh() puts at most one exchange request on the wire.
C10_SingleExchange ==
    \A c \in Calls : kind[c] = "refresh" => attempts[c] <= 1

\* C10 amended: the exchange of one refresh() is re-sent only by the gateway's
\* retry policy, once per retryable failure and at most 3 times (4 requests);
\* after the call has settled nothing more is sent.
C10_ExchangeResentOnlyByGateway ==
    \A c \in Calls :
        kind[c] = "refresh" =>
            /\ attempts[c] <= 4
            /\ attempts[c] <= fails[c] + 1
            /\ Settled(c) => attempts[c] = Min(fails[c] + 1, 4)

C10_Witness ==
    \E c \in Calls :
        /\ kind[c] = "refresh"
        /\ st[c] = "done"
        /\ attempts[c] = 4
        /\ status[c] = OkStatus
        /\ ret[c] = "true"

\* Outcomes the gateway retries: 429, 5xx, no response received.
Retryable == {429, 500, 502, 503, NoResponse}

\* C11: right after completeLogin succeeds, the Credential held by the token
\* store (access token and refresh token) is the Credential it returned.
C11_LoginRoundTrip ==
    [][\A c \in Calls :
          (st[c] = "resolved" /\ kind[c] = "login" /\ status[c] = OkStatus
             /\ st'[c] = "done")
              => TokenStoreGet' = LoginResult(c)']_vars

\* C12: a success that follows k retryable failures (k <= 3) settles the call
\* with that response after k + 1 attempts and nothing more is sent; the
\* waits before it add up to 0, 1000, 3000, 7000 ms for k = 0, 1, 2, 3.
C12_SuccessAfterRetries ==
    /\ [][\A c \in Calls : \A tok \in Tokens :
            RecvSuccess(c, tok) =>
                /\ st'[c] = "resolved"
                /\ status'[c] = OkStatus
                /\ attempts'[c] = fails[c] + 1]_vars
    /\ [](\A c \in Calls :
            (Settled(c) /\ status[c] = OkStatus) =>
                /\ fails[c] <= 3
                /\ attempts[c] = fails[c] + 1
                /\ waited[c] = CASE fails[c] = 0 -> 0
                                 [] fails[c] = 1 -> 1000
                                 [] fails[c] = 2 -> 3000
                                 [] OTHER -> 7000)

C12_Witness ==
    \E c \in Calls :
        /\ st[c] = "resolved"
        /\ status[c] = OkStatus
        /\ fails[c] = 3
        /\ attempts[c] = 4
        /\ waited[c] = 7000

\* C13: the 4th consecutive retryable failure of a call settles it with that
\* very failure (same status) after exactly 4 attempts.
C13_LastFailureReturned ==
    /\ [][\A c \in Calls : \A o \in Retryable :
            (RecvError(c, o) /\ fails[c] = 3) =>
                /\ st'[c] = "resolved"
                /\ status'[c] = o
                /\ attempts'[c] = 4]_vars
    /\ [](\A c \in Calls :
            (Settled(c) /\ fails[c] = 4) =>
                attempts[c] = 4 /\ status[c] \in Retryable)

C13_Witness ==
    \E c \in Calls :
        /\ st[c] = "resolved"
        /\ status[c] = 429
        /\ fails[c] = 4
        /\ attempts[c] = 4
        /\ retryCount[c] = 3

\* C14: the timer started before the k-th retry is 1000, 2000, 4000 ms for
\* k = 1, 2, 3, whatever the failure was; an attempt in flight has all the
\* waits of its earlier retries behind it.
C14_BackoffSchedule ==
    \A c \in Calls :
        /\ st[c] = "wait" =>
              /\ retryCount[c] \in {1, 2, 3}
              /\ delay[c] = CASE retryCount[c] = 1 -> 1000
                              [] retryCount[c] = 2 -> 2000
                              [] OTHER -> 4000
              /\ waited[c] = delay[c] - 1000
        /\ st[c] = "flight" =>
              waited[c] = CASE retryCount[c] = 0 -> 0
                            [] retryCount[c] = 1 -> 1000
                            [] retryCount[c] = 2 -> 3000
                            [] OTHER -> 7000

C14_Witness ==
    \E c \in Calls :
        /\ st[c] = "wait"
        /\ retryCount[c] = 3
        /\ delay[c] = 4000
        /\ waited[c] = 3000

\* C15: retryCount of a call stays within 0..3 and equals the number of
\* retries scheduled for it so far (one per retryable failure, 3 at most).
C15_RetryCountBounded ==
    \A c \in Calls :
        /\ retryCount[c] >= 0 /\ retryCount[c] <= 3
        /\ retryCount[c] = Min(fails[c], 3)
        /\ st[c] = "flight" => retryCount[c] = attempts[c] - 1
        /\ st[c] = "wait" => retryCount[c] = attempts[c]

C15_Witness ==
    \E c \in Calls :
        /\ st[c] = "flight"
        /\ retryCount[c] = 3
        /\ attempts[c] = 4
        /\ fails[c] = 3

\* C16: what the gateway does with a failed attempt depends on its outcome
\* only (and the retry budget): 401 tears down and settles; another status in
\* [400, 500) except 429 settles without touching store or location; 429, a
\* status >= 500 or no response is retried while retryCount < 3.
C16_Classification ==
    [][\A c \in Calls : \A o \in ErrStatuses \cup {NoResponse} :
          RecvError(c, o) =>
              /\ o = 401 =>
                    /\ st'[c] = "resolved" /\ status'[c] = o
                    /\ getToken' = None /\ location' = LoginRoute
              /\ (o >= 400 /\ o < 500 /\ o # 401 /\ o # 429) =>
                    /\ st'[c] = "resolved" /\ status'[c] = o
                    /\ localStorage' = localStorage /\ location' = location
              /\ (o = 429 \/ o >= 500 \/ o = NoResponse) =>
                    /\ localStorage' = localStorage /\ location' = location
                    /\ IF retryCount[c] < 3
                       THEN st'[c] = "wait" /\ retryCount'[c] = retryCount[c] + 1
                       ELSE st'[c] = "resolved" /\ status'[c] = o]_vars

C16_Witness ==
    \E c, d \in Calls :
        /\ st[c] = "resolved" /\ st[d] = "resolved"
        /\ status[c] = 404 /\ status[d] = 404
        /\ retryCount[c] = 0 /\ retryCount[d] = 2
        /\ kind[c] = "send" /\ kind[d] = "login"
        /\ getToken # None

\* C17: refresh() always completes with a boolean and logout() always
\* completes normally, whatever their remote call settled with.
C17_NoThrow ==
    \A c \in Calls :
        /\ (kind[c] = "refresh" /\ st[c] = "done") => ret[c] \in {"true", "false"}
        /\ (kind[c] = "logout" /\ st[c] = "done") => ret[c] = "void"
        /\ (kind[c] \in {"refresh", "logout"} /\ st[c] # "done") => ret[c] = None

C17_Witness ==
    \E c, d \in Calls :
        /\ kind[c] = "logout" /\ st[c] = "done" /\ status[c] = 500
        /\ ret[c] = "void"
        /\ kind[d] = "refresh" /\ st[d] = "done" /\ status[d] = 401
        /\ ret[d] = "false"

\* C18: isAuthenticated() is true exactly when localStorage holds an access
\* token, whatever else it holds.
C18_IsAuthenticated ==
    isAuthenticated <=> localStorage[TOKEN_KEY] \in Tokens

C18_Witness ==
    /\ ~isAuthenticated
    /\ getRefreshToken # None
    /\ \E c \in Calls : Settled(c) /\ status[c] = 401 /\ hdr[c] # None

\* C19: when a call is settled with a 401, the token store has been cleared
\* (access token, refresh token and session) and navigation to the login
\* route has been requested by the time the error reaches the caller.
C19_TeardownBeforeError ==
    [][\A c \in Calls :
          (st'[c] = "resolved" /\ st[c] = "flight" /\ status'[c] = 401) =>
              AllAbsent(localStorage') /\ location' = LoginRoute]_vars

\* C20: a call never has two requests awaiting their outcome; a retry goes
\* out only from the backoff wait of the failed previous attempt, once its
\* timer has run.
C20_OneInFlight ==
    /\ [](\A c \in Calls :
            wire[c] <= 1 /\ (wire[c] = 1 <=> st[c] = "flight"))
    /\ [][\A c \in Calls :
            (attempts'[c] > attempts[c] /\ attempts[c] >= 1) =>
                /\ st[c] = "wait"
                /\ wire[c] = 0
                /\ delay[c] > 0
                /\ waited'[c] = waited[c] + delay[c]]_vars

C20_Witness ==
    \E c, d \in Calls :
        /\ c # d
        /\ st[c] = "flight" /\ attempts[c] = 2 /\ wire[c] = 1
        /\ st[d] = "flight" /\ wire[d] = 1

\* A step of call c: its position changes.
StepOf(c) == st'[c] # st[c]

\* The caller of call c resumes after its await (logout, refresh or login).
ControllerStep(c) ==
    /\ st[c] = "resolved" /\ st'[c] = "done"
    /\ kind[c] \in {"logout", "refresh", "login"}

\* C21: localStorage changes only in a step where logout, refreshToken or
\* handleShopifyCallback resumes, or where the gateway handles a 401; a
\* successful response, a 4xx other than 401, a retryable failure (retried or
\* final), a failure without config, a timer firing and the issue of a call
\* leave access token, refresh token and session as they were.
C21_StoreWriters ==
    /\ [][localStorage' # localStorage =>
            \E c \in Calls : ControllerStep(c) \/ RecvError(c, 401)]_vars
    /\ [][\A c \in Calls :
            (\/ \E tok \in Tokens : RecvSuccess(c, tok)
             \/ \E o \in ErrOutcomes \ {401} : RecvError(c, o)
             \/ TimerFire(c)
             \/ \E k \in Kinds : Issue(c, k)) =>
                localStorage' = localStorage]_vars

C21_Witness ==
    /\ getToken # None /\ getRefreshToken # None
    /\ \E c, d \in Calls :
        /\ Settled(c) /\ status[c] = 404 /\ kind[c] = "send"
        /\ Settled(d) /\ status[d] = 503 /\ attempts[d] = 4 /\ kind[d] = "send"

\* C22: a retry is dispatched with the access token localStorage holds when the
\* timer fires, whatever header the earlier attempt carried: after a login or a
\* refresh replaced the token during the wait, the retry carries the new one.
C22_RetryReadsStore ==
    [][\A c \in Calls :
          (TimerFire(c) /\ getToken # None) =>
              /\ hdr'[c] = getToken
              /\ kind'[c] = kind[c]]_vars

C22_Witness ==
    \E c, d \in Calls :
        /\ st[c] = "flight" /\ attempts[c] = 2 /\ kind[c] = "send"
        /\ hdr[c] = "t2" /\ getToken = "t2"
        /\ kind[d] = "login" /\ st[d] = "done" /\ ret[d] = "data"
        /\ hdr[d] = "t1" /\ body[d] = "t2"

\* C23: when refreshToken resumes with a successful exchange it returns true,
\* the stored access token is the access_token of the response, and the stored
\* refresh token and session are the ones stored before.
C23_RefreshSuccess ==
    [][\A c \in Calls :
          (RefreshFinish(c) /\ status[c] = OkStatus) =>
              /\ ret'[c] = "true"
              /\ getItem(localStorage', TOKEN_KEY) = body[c]
              /\ getItem(localStorage', REFRESH_TOKEN_KEY) = getRefreshToken
              /\ getItem(localStorage', USER_KEY) = getItem(localStorage, USER_KEY)]_vars

C23_Witness ==
    \E c \in Calls :
        /\ kind[c] = "refresh" /\ st[c] = "done" /\ ret[c] = "true"
        /\ hdr[c] = "t1" /\ body[c] = "t2" /\ getToken = "t2"
        /\ getRefreshToken = "r1"
        /\ getItem(localStorage, USER_KEY) = "s1"

\* handleShopifyCallback resumes with a rejected exchange.
LoginRejected(c) == LoginFinish(c) /\ status[c] # OkStatus

\* C24 as stated: from the rejection of the exchange request to the throw of
\* handleShopifyCallback, no step of the login call changes localStorage,
\* whatever the rejection was, 401 included; the call ends by throwing.
C24_RejectedLoginKeepsStore ==
    [][\A c \in Calls :
          kind[c] = "login" =>
              /\ \A o \in ErrOutcomes :
                    RecvError(c, o) => localStorage' = localStorage
              /\ LoginRejected(c) =>
                    ret'[c] = "throw" /\ localStorage' = localStorage]_vars

\* C24: a rejected handleShopifyCallback throws and stores nothing. No step of
\* the login call changes localStorage, except the response interceptor's
\* handling of a 401 rejection, which leaves no access token stored and writes
\* no new value to any entry.
C24_RejectedLoginStoresNothing ==
    [][\A c \in Calls :
          kind[c] = "login" =>
              /\ \A o \in ErrOutcomes \ {401} :
                    RecvError(c, o) => localStorage' = localStorage
              /\ RecvError(c, 401) =>
                    /\ getItem(localStorage', TOKEN_KEY) = None
                    /\ \A k \in DOMAIN localStorage :
                          localStorage'[k] \in {localStorage[k], None}
              /\ LoginRejected(c) =>
                    ret'[c] = "throw" /\ localStorage' = localStorage]_vars

C24_Witness ==
    \E c \in Calls :
        /\ kind[c] = "login" /\ st[c] = "done" /\ ret[c] = "throw"
        /\ status[c] = 401 /\ hdr[c] # None
        /\ getToken = None /\ getRefreshToken # None

\* The messages a rendered error may show.
MessageStrings ==
    {"", GenericMessage, UnexpectedMessage}
        \cup (Details \ {None}) \cup (DataMessages \ {None})
        \cup TransportMessages

\* C25: for an axios error the message is the body's detail when it is present
\* and not empty, else the body's message when present and not empty, else the
\* error's own message when not empty, else "An error occurred"; for every
\* value the result is a string.
C25_FallbackChain ==
    message # None =>
        /\ message \in MessageStrings
        /\ error.isAxiosError =>
              message =
                  IF error.hasData /\ error.detail \notin {None, ""}
                  THEN error.detail
                  ELSE IF error.hasData /\ error.dataMessage \notin {None, ""}
                  THEN error.dataMessage
                  ELSE IF error.message # "" THEN error.message
                  ELSE "An error occurred"

C25_Witness ==
    /\ message = "Bad request"
    /\ error.isAxiosError /\ error.hasData
    /\ error.detail = "" /\ error.message = "Network Error"

\* C26: every call put on the wire is eventually settled (a response, or the
\* rejection the interceptor ends with), and never with more than 4 requests
\* sent or more than 3 timers set for it.
C26_Terminates ==
    /\ \A c \in Calls : (st[c] = "flight") ~> Settled(c)
    /\ [](\A c \in Calls :
             /\ attempts[c] <= 4
             /\ retryCount[c] <= 3
             /\ waited[c] + delay[c] <= 7000)

C26_Witness ==
    \E c, d \in Calls :
        /\ c # d
        /\ Settled(c) /\ attempts[c] = 4 /\ retryCount[c] = 3
        /\ waited[c] = 7000 /\ status[c] = NoResponse
        /\ Settled(d) /\ attempts[d] = 2 /\ status[d] = OkStatus

\* C27: a retryable failure met with retryCount < 3 puts the call in its
\* backoff wait; nothing takes the call out of the wait but the dispatch of its
\* next attempt, and that dispatch always comes, also when localStorage was
\* emptied meanwhile by logout or by the 401 of another call.
C27_RetryNotCancelled ==
    /\ \A c \in Calls : (st[c] = "wait") ~> (st[c] = "flight")
    /\ [][\A c \in Calls :
            /\ \A o \in Retryable :
                  (RecvError(c, o) /\ retryCount[c] < 3) => st'[c] = "wait"
            /\ (st[c] = "wait" /\ st'[c] # "wait") =>
                  st'[c] = "flight" /\ attempts'[c] = attempts[c] + 1]_vars

C27_Witness ==
    \E c, d \in Calls :
        /\ st[c] = "flight" /\ attempts[c] = 3 /\ hdr[c] # None
        /\ kind[d] = "logout" /\ st[d] = "done"
        /\ AllAbsent(localStorage)
        /\ location = LoginRoute

\* C28: a step of one call leaves the retry count, the requests sent, the
\* failures met and the pending delay of every other call as they were; each
\* call sends at most 4 requests, and a call that ends on a retryable failure
\* has sent exactly 4, whatever the other calls did meanwhile.
C28_BudgetPerCall ==
    /\ [][\A c, d \in Calls :
            (c # d /\ StepOf(c)) =>
                /\ retryCount'[d] = retryCount[d]
                /\ attempts'[d] = attempts[d]
                /\ fails'[d] = fails[d]
                /\ delay'[d] = delay[d]
                /\ st'[d] = st[d]]_vars
    /\ [](\A c \in Calls :
            /\ attempts[c] <= 4
            /\ (Settled(c) /\ status[c] \in Retryable) =>
                  attempts[c] = 4 /\ retryCount[c] = 3)

C28_Witness ==
    \E c, d \in Calls :
        /\ st[c] = "wait" /\ retryCount[c] = 3 /\ attempts[c] = 3
        /\ st[d] = "flight" /\ retryCount[d] = 1 /\ attempts[d] = 2

\* The retryable failures among the first n recorded outcomes.
RECURSIVE RetryableIn(_, _)
RetryableIn(s, n) ==
    IF n = 0 THEN 0
    ELSE RetryableIn(s, n - 1) + (IF s[n] \in Retryable THEN 1 ELSE 0)

\* C29: whatever mix of 429, 5xx and no-response failures one call meets, its
\* retry count is the number of those failures (capped at 3), the delay set
\* after the k-th of them is 1000 * 2^(k-1) ms, so 1000, 2000, 4000, the call
\* sends at most 4 requests, and it ends on such a failure only at the fourth.
C29_OneCounterForAllKinds ==
    LET c == Observed
        n == RetryableIn(trace, Len(trace))
    IN  /\ attempts[c] <= 4 /\ Len(trace) <= 4
        /\ retryCount[c] = Min(n, 3)
        /\ st[c] = "wait" =>
              /\ n = Len(trace)
              /\ delay[c] = 1000 * Pow2(n - 1)
              /\ delay[c] \in {1000, 2000, 4000}
        /\ waited[c] + delay[c] = 1000 * (Pow2(retryCount[c]) - 1)
        /\ (Settled(c) /\ status[c] \in Retryable) =>
              n = 4 /\ attempts[c] = 4

C29_Witness ==
    /\ trace = <<429, 503, NoResponse>>
    /\ st[Observed] = "wait"
    /\ delay[Observed] = 4000 /\ waited[Observed] = 3000
    /\ attempts[Observed] = 3

\* C30: a 401 answering a request that does not carry the access token now
\* stored (the token was stored by a login or a refresh after the request was
\* dispatched) leaves that token in localStorage.
C30_LateUnauthorizedKeepsNewToken ==
    [][\A c \in Calls :
          (RecvError(c, 401) /\ getToken # None /\ hdr[c] # getToken) =>
              getItem(localStorage', TOKEN_KEY) = getToken]_vars

\* C31: after logout has returned and left no access token, a login or a
\* refresh whose request went out with a token attached (so before logout
\* emptied localStorage) stores no access token when it resumes.
C31_LogoutStaysLoggedOut ==
    [][\A c, d \in Calls :
          (/\ kind[c] = "logout" /\ st[c] = "done"
           /\ getToken = None
           /\ hdr[d] # None
           /\ LoginFinish(d) \/ RefreshFinish(d)) =>
              getItem(localStorage', TOKEN_KEY) = None]_vars

\* C32 as stated: no step of a refreshToken call, from its request to its
\* return, changes window.location, also when the exchange is answered 401.
C32_RefreshNeverNavigates ==
    [][\A c \in Calls :
          (kind[c] = "refresh" /\ StepOf(c)) => location' = location]_vars

\* C32: refreshToken's own code never navigates: on a rejected exchange it
\* clears the three entries and returns false, leaving window.location as it
\* was. While the exchange is under way window.location changes only when the
\* answer is a 401, which the response interceptor handles by requesting the
\* login route, as for any other call.
C32_RefreshNavigatesOnlyByGateway ==
    [][\A c \in Calls :
          kind[c] = "refresh" =>
              /\ \A o \in ErrOutcomes \ {401} :
                    RecvError(c, o) => location' = location
              /\ RecvError(c, 401) => location' = LoginRoute
              /\ \A tok \in Tokens :
                    RecvSuccess(c, tok) => location' = location
              /\ TimerFire(c) => location' = location
              /\ RefreshFinish(c) =>
                    /\ location' = location
                    /\ status[c] # OkStatus =>
                          ret'[c] = "false" /\ AllAbsent(localStorage')]_vars

C32_Witness ==
    \E c, d \in Calls :
        /\ c # d /\ st[d] = "idle"
        /\ kind[c] = "refresh" /\ st[c] = "done" /\ ret[c] = "false"
        /\ status[c] = 401
        /\ location = LoginRoute
        /\ AllAbsent(localStorage)

\* C33: window.location changes only in the step where the response
\* interceptor handles a 401, so the login route is shown only if some call was
\* answered 401; a 4xx other than 401, a final 429/5xx/no-response failure, a
\* success, and logout resuming after a revocation that was not answered 401
\* leave window.location as it was.
C33_NavigationOnly401 ==
    /\ [][location' # location => \E c \in Calls : RecvError(c, 401)]_vars
    /\ [][\A c \in Calls : LogoutFinish(c) => location' = location]_vars
    /\ [](location = LoginRoute =>
             \E c \in Calls : Settled(c) /\ status[c] = 401)

C33_Witness ==
    \E c, d \in Calls :
        /\ location = AppRoute
        /\ Settled(c) /\ status[c] = 403 /\ kind[c] = "send"
        /\ kind[d] = "logout" /\ st[d] = "done"
        /\ status[d] = 503 /\ attempts[d] = 4

\* C34: a logout whose revocation request is on the wire eventually returns
\* with the three entries removed. It changes localStorage in no step before
\* its request is settled (after at most 4 requests and 3 waits): the clear
\* comes when logout resumes from the settled request. While the request is
\* in flight or waiting for a retry, a call dispatched with a token stored
\* carries that token.
C34_LogoutClearsAfterRevocation ==
    /\ \A c \in Calls :
          (kind[c] = "logout" /\ st[c] = "flight") ~>
              (st[c] = "done" /\ AllAbsent(localStorage))
    /\ [][\A c \in Calls :
            /\ (kind'[c] = "logout" /\ StepOf(c)
                    /\ st'[c] \in {"flight", "wait"}) =>
                  localStorage' = localStorage
            /\ LogoutFinish(c) =>
                  /\ Settled(c) /\ attempts[c] <= 4 /\ waited[c] <= 7000
                  /\ AllAbsent(localStorage')
            /\ \A d \in Calls :
                  (/\ kind[c] = "logout" /\ st[c] \in {"flight", "wait"}
                   /\ getToken # None
                   /\ attempts'[d] = attempts[d] + 1) =>
                      hdr'[d] = getToken]_vars

C34_Witness ==
    \E c, d \in Calls :
        /\ kind[c] = "logout" /\ st[c] = "done"
        /\ attempts[c] = 4 /\ waited[c] = 7000 /\ status[c] = 503
        /\ AllAbsent(localStorage)
        /\ kind[d] = "send" /\ hdr[d] # None /\ st[d] = "flight"

\* C35: an error without config settles the call at once with that error: the
\* retry count, the requests sent, the failures counted and the timers stay as
\* they were, and so do localStorage and window.location, although the error
\* carries no response.
C35_NoConfigImmediate ==
    [][\A c \in Calls :
          RecvError(c, NoConfig) =>
              /\ st'[c] = "resolved" /\ status'[c] = NoConfig
              /\ ~HasStatus(NoConfig)
              /\ retryCount'[c] = retryCount[c]
              /\ attempts'[c] = attempts[c]
              /\ fails'[c] = fails[c]
              /\ delay'[c] = delay[c] /\ waited'[c] = waited[c]
              /\ localStorage' = localStorage
              /\ location' = location]_vars

C35_Witness ==
    \E c \in Calls :
        /\ Settled(c) /\ status[c] = NoConfig
        /\ attempts[c] = 1 /\ retryCount[c] = 0 /\ waited[c] = 0
        /\ hdr[c] # None /\ getToken = hdr[c]
        /\ location = AppRoute

====
